---- MODULE Spec2Model ----
(***************************************************************************)
(* filmfinder: a content-based movie recommender.                          *)
(*                                                                         *)
(* models/MovieRecommender.py keeps two fields, movie_data (a DataFrame of *)
(* Movie records) and cosine_sim_matrix (None or a square array), and      *)
(* offers enrich_dataset, load_dataset, generate_similarity_matrix and     *)
(* recommend.  app.py drives them from an interactive loop.                *)
(*                                                                         *)
(* Conventions of the model:                                               *)
(*  - a DataFrame is the sequence of its rows; Python's 0-based positions  *)
(*    are 1-based here, so row i of the code is row i+1 of the model;      *)
(*  - a text is the sequence of its characters, so that the vectorizer's   *)
(*    lower-casing and tokenisation are computed, not assumed;             *)
(*  - a similarity score s is held exactly, as the reduced fraction of     *)
(*    s*s (s >= 0, so s |-> s*s keeps order and equality); the rounding of *)
(*    the floating-point arithmetic is not modelled;                       *)
(*  - of a Movie only title and genre are kept: year, director, plot and   *)
(*    rating are read by none of the operations modelled.                  *)
(***************************************************************************)
EXTENDS Integers, Sequences, FiniteSets

VARIABLES
    movie_data,          \* MovieRecommender.movie_data: the rows of the DataFrame
    cosine_sim_matrix,   \* MovieRecommender.cosine_sim_matrix: None or the matrix
    last,                \* the latest call on the recommender and how it ended
    built,               \* history: a generate_similarity_matrix completed since
                         \* movie_data was last assigned
    pc,                  \* app.main: where the program is
    input_movie,         \* app.main: the line read by input()
    printed              \* app.main: what the loop printed for that line

vars == <<movie_data, cosine_sim_matrix, last, built, pc, input_movie, printed>>

---------------------------------------------------------------------------
(* Bounds *)

\* longest title list handed to enrich_dataset
MaxTitles == 2
\* most records in a dataset file read by load_dataset
MaxFile == 2
\* largest n asked of recommend
MaxN == 3

---------------------------------------------------------------------------
(* Texts *)

Min(a, b) == IF a < b THEN a ELSE b

RECURSIVE GCD(_, _)
GCD(a, b) == IF b = 0 THEN a ELSE GCD(b, a % b)

\* str.lower on the characters the genres use
LowerOf ==
    [A |-> "a", B |-> "b", C |-> "c", D |-> "d", F |-> "f", I |-> "i", N |-> "n",
     Q |-> "q", S |-> "s", T |-> "t", U |-> "u"]

Lower(c) == IF c \in DOMAIN LowerOf THEN LowerOf[c] ELSE c

lower(text) == [k \in 1..Len(text) |-> Lower(text[k])]

\* \w of the token pattern, on the (lower-cased) characters the genres use
WordChars == {"a", "c", "d", "e", "f", "i", "m", "n", "o", "s", "t", "y"}

\* the empty string
Empty == <<>>

\* no line read yet
NoInput == <<"(no input)">>

\* a missing genre (None from the API, null in the file)
NaN == <<"NaN">>

fillna(genre) == IF genre = NaN THEN <<>> ELSE genre

\* a run of word characters is a token when it has two characters or more
Flush(cur, acc) == IF Len(cur) >= 2 THEN Append(acc, cur) ELSE acc

RECURSIVE Scan(_, _, _)
Scan(doc, cur, acc) ==
    IF doc = <<>> THEN Flush(cur, acc)
    ELSE IF Head(doc) \in WordChars
         THEN Scan(Tail(doc), Append(cur, Head(doc)), acc)
         ELSE Scan(Tail(doc), <<>>, Flush(cur, acc))

\* CountVectorizer's analyzer: lower-case, then findall(r"(?u)\b\w\w+\b")
Tokenize(doc) == Scan(lower(doc), <<>>, <<>>)

---------------------------------------------------------------------------
(* Data the program meets: what the API answers and what a file may hold *)

Movie(title, genre) == [title |-> title, genre |-> genre]

ActionSciFi == <<"A", "c", "t", "i", "o", "n", ",", " ", "S", "c", "i", "-", "F", "i">>
Action == <<"A", "c", "t", "i", "o", "n">>
Comedy == <<"C", "o", "m", "e", "d", "y">>
\* what the API gives for a movie without genre
NotAvailable == <<"N", "/", "A">>

\* the hard-coded title list of main
movie_titles == << <<"A">>, <<"B">>, <<"C">>, <<"D">> >>

\* a title no record has
Unknown == <<"U", "n", "k", "n", "o", "w", "n">>

\* the API's answer to a title when the request succeeds
OMDb ==
    [t \in {movie_titles[k] : k \in DOMAIN movie_titles} |->
        CASE t = <<"A">> -> Movie(t, ActionSciFi)
          [] t = <<"B">> -> Movie(t, Action)
          [] t = <<"C">> -> Movie(t, Comedy)
          [] t = <<"D">> -> Movie(t, NotAvailable)]

Range(seq) == {seq[k] : k \in DOMAIN seq}

SeqsUpTo(S, n) == UNION {[1..k -> S] : k \in 0..n}

\* the title lists a caller may hand to enrich_dataset
TitleLists == SeqsUpTo(Range(movie_titles) \cup {Empty}, MaxTitles)

\* the record sequences a dataset file may hold
Files == SeqsUpTo(Range(OMDb), MaxFile)

\* the titles a caller may ask recommend about
QueryTitles == Range(movie_titles) \cup {Unknown}

---------------------------------------------------------------------------
(* MovieRecommender *)

\* Optional[...]: None is the empty sequence, a value v is <<v>>
None == <<>>
Some(v) == <<v>>

\* the field cosine_sim_matrix: None, or the rows of the array
NoMatrix == [is_none |-> TRUE, rows |-> <<>>]
Matrix(rows) == [is_none |-> FALSE, rows |-> rows]

\* ok: the request went through and the API answered Response "True"
fetch_movie_details(movie_title, ok) ==
    IF ok THEN Some(OMDb[movie_title]) ELSE None

\* [fetch(title) for title in movie_title if title], the None entries dropped
RECURSIVE EnrichedFrom(_, _, _)
EnrichedFrom(movie_title, failed, k) ==
    IF k > Len(movie_title) THEN <<>>
    ELSE (IF movie_title[k] = Empty THEN <<>>
          ELSE fetch_movie_details(movie_title[k], k \notin failed))
         \o EnrichedFrom(movie_title, failed, k + 1)

enrich_dataset_data(movie_title, failed) == EnrichedFrom(movie_title, failed, 1)

\* every DataFrame enrich_dataset can build: any title list, any set of
\* positions whose fetch fails
EnrichOutcomes ==
    {enrich_dataset_data(movie_title, failed) :
        movie_title \in TitleLists, failed \in SUBSET (1..MaxTitles)}

\* the token lists of the genre column
Documents(data) == [i \in 1..Len(data) |-> Tokenize(fillna(data[i].genre))]

Vocabulary(docs) == UNION {Range(docs[i]) : i \in DOMAIN docs}

Count(tokens, t) == Cardinality({k \in DOMAIN tokens : tokens[k] = t})

\* CountVectorizer().fit_transform: one count vector per row
CountVectors(docs) ==
    [i \in DOMAIN docs |-> [t \in Vocabulary(docs) |-> Count(docs[i], t)]]

RECURSIVE Dot(_, _, _)
Dot(u, v, S) ==
    IF S = {} THEN 0
    ELSE LET t == CHOOSE x \in S : TRUE
         IN u[t] * v[t] + Dot(u, v, S \ {t})

\* a score s >= 0, held as the reduced fraction of s*s
Frac(num, den) == LET g == GCD(num, den) IN [num |-> num \div g, den |-> den \div g]
Zero == [num |-> 0, den |-> 1]
One == [num |-> 1, den |-> 1]
Greater(a, b) == a.num * b.den > b.num * a.den

\* dot(u, v) / (|u| |v|); a row of norm zero is left as it is by the
\* normalisation, so its products are 0
cosine(u, v) ==
    LET S == DOMAIN u
        nu == Dot(u, u, S)
        nv == Dot(v, v, S)
        d == Dot(u, v, S)
    IN IF nu = 0 \/ nv = 0 THEN Zero ELSE Frac(d * d, nu * nv)

cosine_similarity(X) == [i \in DOMAIN X |-> [j \in DOMAIN X |-> cosine(X[i], X[j])]]

EmptyDatasetError == "ValueError: Movie data is empty"
EmptyVocabulary == "ValueError: empty vocabulary"
NotBuiltError == "ValueError: Similarity matrix is not generated"
NotFoundError == "None: Movie not found"
KeyErrorTitle == "KeyError: title"
Returned == "returned"

\* generate_similarity_matrix without its check of movie_data.empty: the
\* vectorizer then meets no document and raises on its empty vocabulary
generate_without_empty_check(data, matrix) ==
    IF Vocabulary(Documents(data)) = {}
    THEN [outcome |-> EmptyVocabulary, matrix |-> matrix]
    ELSE [outcome |-> Returned,
          matrix |-> Matrix(cosine_similarity(CountVectors(Documents(data))))]

\* what generate_similarity_matrix does to the matrix, and how it ends
generate_similarity_matrix_result(data, matrix) ==
    IF data = <<>>
    THEN [outcome |-> EmptyDatasetError, matrix |-> matrix]
    ELSE IF Vocabulary(Documents(data)) = {}
    THEN [outcome |-> EmptyVocabulary, matrix |-> matrix]
    ELSE [outcome |-> Returned,
          matrix |-> Matrix(cosine_similarity(CountVectors(Documents(data))))]

\* sorted(enumerate(row), key=score, reverse=True): the positions of the row,
\* by descending score; the sort is stable, so equal scores keep their order
SortedPositions(row) ==
    LET before(j) == {k \in DOMAIN row :
                        Greater(row[k], row[j]) \/ (row[k] = row[j] /\ k < j)}
    IN [p \in DOMAIN row |-> CHOOSE j \in DOMAIN row : Cardinality(before(j)) = p - 1]

\* seq[lo:hi] for 0 <= lo
Slice(seq, lo, hi) == SubSeq(seq, lo + 1, Min(hi, Len(seq)))

\* the slice taken one short: similarity_scores[1 : n]
top_indices_one_short(similarity_scores, n) == Slice(similarity_scores, 1, n)

\* similarity_scores[1 : n + 1]
top_indices(similarity_scores, n) == Slice(similarity_scores, 1, n + 1)

\* the except branch answering an empty list instead of None
NotFoundAsEmptyList(movie_title) == [outcome |-> Returned, value |-> <<>>]

\* the except IndexError branch
NotFound(movie_title) == [outcome |-> NotFoundError, value |-> <<>>]

recommend_result(data, matrix, movie_title, n) ==
    IF matrix.is_none THEN [outcome |-> NotBuiltError, value |-> <<>>]
    ELSE IF data = <<>> THEN [outcome |-> KeyErrorTitle, value |-> <<>>]
    ELSE LET hits == {i \in DOMAIN data : data[i].title = movie_title}
         IN IF hits = {} THEN NotFound(movie_title)
            ELSE LET movie_index == CHOOSE i \in hits : \A h \in hits : i <= h
                 IN IF movie_index > Len(matrix.rows) THEN NotFound(movie_title)
                    ELSE LET top == top_indices(
                                 SortedPositions(matrix.rows[movie_index]), n)
                         IN IF \E k \in DOMAIN top : top[k] > Len(data)
                            THEN NotFound(movie_title)
                            ELSE [outcome |-> Returned,
                                  value |-> [k \in DOMAIN top |-> data[top[k]].title]]

Call(op, movie_title, n, outcome, value) ==
    [op |-> op, movie_title |-> movie_title, n |-> n, outcome |-> outcome,
     value |-> value]

enrich_dataset ==
    \E data \in EnrichOutcomes :
        /\ movie_data' = data
        /\ built' = FALSE
        /\ last' = Call("enrich_dataset", Empty, 0, Returned, <<>>)
        /\ UNCHANGED <<cosine_sim_matrix, pc, input_movie, printed>>

load_dataset ==
    \E file \in Files :
        /\ movie_data' = file
        /\ built' = FALSE
        /\ last' = Call("load_dataset", Empty, 0, Returned, <<>>)
        /\ UNCHANGED <<cosine_sim_matrix, pc, input_movie, printed>>

generate_similarity_matrix ==
    LET r == generate_similarity_matrix_result(movie_data, cosine_sim_matrix)
    IN /\ cosine_sim_matrix' = r.matrix
       /\ built' = (built \/ r.outcome = Returned)
       /\ last' = Call("generate_similarity_matrix", Empty, 0, r.outcome, <<>>)
       /\ UNCHANGED <<movie_data, pc, input_movie, printed>>

recommend ==
    \E movie_title \in QueryTitles, n \in 0..MaxN :
        LET r == recommend_result(movie_data, cosine_sim_matrix, movie_title, n)
        IN /\ last' = Call("recommend", movie_title, n, r.outcome, r.value)
           /\ UNCHANGED <<movie_data, cosine_sim_matrix, built, pc, input_movie, printed>>

Init ==
    /\ movie_data = <<>>
    /\ cosine_sim_matrix = NoMatrix
    /\ last = Call("__init__", Empty, 0, Returned, <<>>)
    /\ built = FALSE
    /\ pc = "library"
    /\ input_movie = NoInput
    /\ printed = ""

Next ==
    \/ enrich_dataset
    \/ load_dataset
    \/ generate_similarity_matrix
    \/ recommend

Spec == Init /\ [][Next]_vars

---------------------------------------------------------------------------
(* app.main *)

\* the n of the loop's recommend call
RecommendCount == 5

Quit == <<"q", "u", "i", "t">>

\* the lines a user may type
InputLines ==
    Range(movie_titles) \cup {Unknown, Empty, Quit, <<"Q", "U", "I", "T">>}

NotInDataset == "Movie not found in the dataset."
SimilarMovies == "Movies similar to"
KeyErrorMessage == "Movie not found in the dataset. Available movies:"
TypeErrorTraceback == "TypeError: 'NoneType' object is not iterable"
ValueErrorTraceback == "ValueError"

\* movies_dataset.json is absent: enrich from the title list, then save
main_enrich ==
    /\ pc = "start"
    /\ \E failed \in SUBSET (DOMAIN movie_titles) :
          movie_data' = enrich_dataset_data(movie_titles, failed)
    /\ built' = FALSE
    /\ last' = Call("save_dataset", Empty, 0, Returned, <<>>)
    /\ pc' = "generate"
    /\ UNCHANGED <<cosine_sim_matrix, input_movie, printed>>

\* movies_dataset.json is there: load it
main_load ==
    /\ pc = "start"
    /\ \E file \in Files : movie_data' = file
    /\ built' = FALSE
    /\ last' = Call("load_dataset", Empty, 0, Returned, <<>>)
    /\ pc' = "generate"
    /\ UNCHANGED <<cosine_sim_matrix, input_movie, printed>>

\* the call of generate_similarity_matrix; main catches nothing around it
main_generate ==
    /\ pc = "generate"
    /\ LET r == generate_similarity_matrix_result(movie_data, cosine_sim_matrix)
       IN /\ cosine_sim_matrix' = r.matrix
          /\ built' = (built \/ r.outcome = Returned)
          /\ last' = Call("generate_similarity_matrix", Empty, 0, r.outcome, <<>>)
          /\ pc' = IF r.outcome = Returned THEN "prompt" ELSE "crashed"
          /\ printed' = IF r.outcome = Returned THEN printed ELSE ValueErrorTraceback
    /\ UNCHANGED <<movie_data, input_movie>>

\* how one pass of the loop ends for a title of the list: what it prints
\* last, and where the program goes
loop_recommend(r) ==
    IF r.outcome = Returned THEN [printed |-> SimilarMovies, pc |-> "prompt"]
    ELSE IF r.outcome = KeyErrorTitle THEN [printed |-> KeyErrorMessage, pc |-> "prompt"]
    ELSE IF r.outcome = NotFoundError
         THEN [printed |-> TypeErrorTraceback, pc |-> "crashed"]
    ELSE [printed |-> ValueErrorTraceback, pc |-> "crashed"]

\* one pass of the while loop
main_loop ==
    /\ pc = "prompt"
    /\ \E line \in InputLines :
          /\ input_movie' = line
          /\ IF lower(line) = Quit
             THEN pc' = "exited" /\ UNCHANGED <<last, printed>>
             ELSE IF line \notin Range(movie_titles)
             THEN pc' = "prompt" /\ printed' = NotInDataset /\ UNCHANGED last
             ELSE LET r == recommend_result(movie_data, cosine_sim_matrix, line,
                                            RecommendCount)
                      end == loop_recommend(r)
                  IN /\ last' = Call("recommend", line, RecommendCount, r.outcome, r.value)
                     /\ printed' = end.printed
                     /\ pc' = end.pc
    /\ UNCHANGED <<movie_data, cosine_sim_matrix, built>>

InitApp ==
    /\ movie_data = <<>>
    /\ cosine_sim_matrix = NoMatrix
    /\ last = Call("__init__", Empty, 0, Returned, <<>>)
    /\ built = FALSE
    /\ pc = "start"
    /\ input_movie = NoInput
    /\ printed = ""

NextApp ==
    \/ main_enrich
    \/ main_load
    \/ main_generate
    \/ main_loop

SpecApp == InitApp /\ [][NextApp]_vars

---------------------------------------------------------------------------
(* Properties of the recommender *)

Titles(data) == {data[i].title : i \in DOMAIN data}

UniqueTitles(data) ==
    \A i, j \in DOMAIN data : data[i].title = data[j].title => i = j

\* a recommend call on a store whose matrix was generated from it, for a
\* title the store holds
RecommendOnBuilt ==
    /\ last.op = "recommend"
    /\ built
    /\ last.movie_title \in Titles(movie_data)

\* C1: on a store whose matrix was generated from it, recommend for a title
\* of the store never returns that title (stated for stores of distinct
\* titles, where the returned title can only be the query's own record).
C1_NeverReturnsQuery ==
    (RecommendOnBuilt /\ UniqueTitles(movie_data))
        => last.movie_title \notin Range(last.value)

\* C2: on a store whose matrix was generated from it, recommend for a title
\* no record has ends with the not-found outcome and returns no titles.
C2_UnknownTitleNotFound ==
    (last.op = "recommend" /\ built /\ last.movie_title \notin Titles(movie_data))
        => (last.outcome = NotFoundError /\ last.value = <<>>)

C2_Witness ==
    /\ last.op = "recommend"
    /\ built
    /\ last.movie_title = Unknown
    /\ last.outcome = NotFoundError

\* C3: a recommend call fails with the not-built error whenever no
\* generate_similarity_matrix has completed since movie_data was last assigned.
C3_NotBuiltUnlessGenerated ==
    (last.op = "recommend" /\ ~built) => last.outcome = NotBuiltError

\* C4: on a store whose matrix was generated from it, recommend(title, n) for
\* a title of the store and n >= 0 returns exactly min(n, store size - 1) titles.
C4_ReturnedCount ==
    RecommendOnBuilt
        => (/\ last.outcome = Returned
            /\ Len(last.value) = Min(last.n, Len(movie_data) - 1))

C4_Witness ==
    /\ RecommendOnBuilt
    /\ Len(movie_data) >= 2
    /\ last.n >= Len(movie_data)
    /\ Len(last.value) = Len(movie_data) - 1

\* the ranking the claim describes: the positions j # i by descending score
\* of row i, equal scores by ascending position
RankedOthers(row, i) ==
    LET others == DOMAIN row \ {i}
        before(j) == {k \in others :
                        Greater(row[k], row[j]) \/ (row[k] = row[j] /\ k < j)}
    IN [p \in 1..Cardinality(others) |->
            CHOOSE j \in others : Cardinality(before(j)) = p - 1]

FirstIndex(data, title) ==
    CHOOSE i \in DOMAIN data :
        data[i].title = title /\ \A h \in DOMAIN data : data[h].title = title => i <= h

\* C5: the list returned for the title at index i is the first n of the
\* records j # i by descending sim(i, j), equal scores by ascending index.
C5_RankedByScoreThenIndex ==
    RecommendOnBuilt
        => LET i == FirstIndex(movie_data, last.movie_title)
               ranked == RankedOthers(cosine_sim_matrix.rows[i], i)
               first == SubSeq(ranked, 1, Min(last.n, Len(ranked)))
           IN /\ last.outcome = Returned
              /\ last.value = [k \in DOMAIN first |-> movie_data[first[k]].title]

\* C6: generate_similarity_matrix on a store of zero records ends with the
\* empty-dataset error and leaves the stored matrix as it was.
C6_EmptyDatasetError ==
    [][(last'.op = "generate_similarity_matrix" /\ movie_data = <<>>)
        => (/\ last'.outcome = EmptyDatasetError
            /\ cosine_sim_matrix' = cosine_sim_matrix)]_vars

C6_Witness ==
    /\ last.op = "generate_similarity_matrix"
    /\ last.outcome = EmptyDatasetError
    /\ movie_data = <<>>
    /\ ~cosine_sim_matrix.is_none

InUnitInterval(s) == s.den > 0 /\ 0 <= s.num /\ s.num <= s.den

ZeroVector(record) == Tokenize(fillna(record.genre)) = <<>>

\* what the claim says of the matrix of a store
WellFormedMatrix(matrix, data) ==
    LET rows == matrix.rows
        size == 1..Len(data)
    IN /\ ~matrix.is_none
       /\ Len(rows) = Len(data)
       /\ \A i \in size : Len(rows[i]) = Len(data)
       /\ \A i, j \in size : rows[i][j] = rows[j][i] /\ InUnitInterval(rows[i][j])
       /\ \A i \in size :
             IF ZeroVector(data[i])
             THEN \A j \in size : rows[i][j] = Zero /\ rows[j][i] = Zero
             ELSE rows[i][i] = One

\* C7: for every non-empty store, generate_similarity_matrix produces a
\* matrix that is square of the store's size, symmetric, with entries in
\* [0, 1], the diagonal 1.0 except for a zero vector, whose row and column are 0.0.
C7_MatrixOfEveryNonEmptyStore ==
    (last.op = "generate_similarity_matrix" /\ movie_data # <<>>)
        => (last.outcome = Returned /\ WellFormedMatrix(cosine_sim_matrix, movie_data))

\* C9: a matrix that is held has the size of the current store and was
\* computed from its records.
C9_MatrixIsOfCurrentStore ==
    ~cosine_sim_matrix.is_none
        => LET r == generate_similarity_matrix_result(movie_data, NoMatrix)
           IN r.outcome = Returned /\ cosine_sim_matrix = r.matrix

\* C10: after enrich_dataset every record has a non-empty title and no two
\* records have the same title.
C10_TitlesNonEmptyAndUnique ==
    last.op = "enrich_dataset"
        => (/\ \A i \in DOMAIN movie_data : movie_data[i].title # Empty
            /\ UniqueTitles(movie_data))

---------------------------------------------------------------------------
(* Properties of the interactive loop *)

\* C8: for every line other than quit that is the title of no record of the
\* store, the loop prints a not-found response and prompts again.
C8_UnknownInputKeepsSession ==
    (/\ input_movie # NoInput
     /\ lower(input_movie) # Quit
     /\ input_movie \notin Titles(movie_data))
        => (pc = "prompt" /\ printed \in {NotInDataset, KeyErrorMessage})

====
